---- MODULE Spec2Model ----
(***************************************************************************)
(* Model of gemini-mcp-rust: execute_gemini (src/src/gemini.rs), the       *)
(* subprocess execution and streaming-event pipeline.                      *)
(*                                                                         *)
(* One call of execute_gemini is modelled.  Every action is the code that  *)
(* runs between two suspension points (.await) of the async function.      *)
(*                                                                         *)
(* Encodings                                                               *)
(*   Option<T>   a sequence of length 0 (None) or 1 (Some(x)).             *)
(*   String      type/role/session_id: a TLA+ string; content and          *)
(*               agent_messages: a sequence of characters, so that         *)
(*               push_str is \o and contains() is a substring search.      *)
(*   a line      a record: pad (surrounding whitespace present), form      *)
(*               (what the text between the whitespace is) and, for a      *)
(*               JSON object, the members the deserializer looks at.       *)
(*                                                                         *)
(* Time and the child                                                      *)
(*   The three timers (deadline, grace delay, grace window) are events     *)
(*   that may happen whenever the code is suspended on them.  The child    *)
(*   exits when it likes, or never.  child.wait() completes only once the  *)
(*   child has exited; child.kill() either kills and reaps the child or    *)
(*   fails and leaves it as it is (its result is dropped by the code).     *)
(***************************************************************************)
EXTENDS Naturals, Sequences, FiniteSets

None == <<>>
Some(x) == <<x>>
IsSome(o) == Len(o) = 1
IsNone(o) == Len(o) = 0
Unwrap(o) == o[1]

\* ---------------------------------------------------------------- bounds
\* Parsed events processed in one run (bounds agent_messages, all_messages).
MaxEvents == 2
\* Both kinds of malformed line (garbage, mistyped object) are enumerated
\* while the backlog holds fewer than MaxMixed entries; beyond that only
\* garbage lines are.
MaxMixed == 1
\* Characters of a prompt (the argument builder is checked over every prompt
\* up to this length).
MaxPromptLen == 2

\* ------------------------------------------------------ program constants
\* gemini.rs:200  if error_messages.len() > 10
BacklogCap == 10

\* gemini.rs:74
DEPRECATED_PROMPT_WARNING == <<"d", "p">>

\* ------------------------------------------------------------ the inputs
\* The child's possible output lines.
Obj(t, r, c, s, x) ==
    [pad |-> FALSE, form |-> "object", type |-> t, role |-> r,
     content |-> c, session_id |-> s, extra |-> x]

NonObj(f) ==
    [pad |-> FALSE, form |-> f, type |-> None, role |-> None,
     content |-> None, session_id |-> None, extra |-> {}]

Padded(l) == [l EXCEPT !.pad = TRUE]

LnBlank    == NonObj("blank")
LnGarbage  == NonObj("garbage")
LnMistyped == NonObj("mistyped")
LnHello    == Obj(Some("message"), Some("assistant"), Some(<<"H", "i">>), None, {})
LnWarn     == Obj(Some("message"), Some("assistant"),
                  Some(<<"x">> \o DEPRECATED_PROMPT_WARNING \o <<"y">>), None, {})
LnUser     == Obj(Some("message"), Some("user"), Some(<<"u">>), None, {})
LnTool     == Obj(Some("message"), Some("assistant"), None, Some("s2"), {"tool"})
LnEmpty    == Obj(Some("message"), Some("assistant"), Some(<<>>), None, {})
LnInit     == Obj(Some("init"), Some("assistant"), Some(<<"i">>), Some("s1"), {})
LnUnknown  == Obj(None, None, None, None, {"stats"})
LnDone     == Obj(Some("turn.completed"), None, None, Some("abc123"), {})

Lines ==
    {LnBlank, Padded(LnBlank), LnGarbage, Padded(LnGarbage), LnMistyped,
     LnHello, Padded(LnHello), LnWarn, LnUser, LnTool, LnEmpty, LnInit,
     LnUnknown, LnDone}

\* ------------------------------------------------------- pure functions
\* gemini.rs:155  line.trim()
Trim(l) == [l EXCEPT !.pad = FALSE]

\* gemini.rs:156  line.is_empty()
IsEmptyLine(l) == l.pad = FALSE /\ l.form = "blank"

\* gemini.rs:161  serde_json::from_str::<GeminiEvent>(&line)
\* Ok for a JSON object whose known members are strings or null.
ParseEvent(l) ==
    IF l.form = "object"
    THEN [ok |-> TRUE,
          event |-> [event_type |-> l.type, role |-> l.role,
                     content |-> l.content, session_id |-> l.session_id,
                     extra |-> l.extra],
          detail |-> ""]
    ELSE [ok |-> FALSE,
          event |-> [event_type |-> None, role |-> None, content |-> None,
                     session_id |-> None, extra |-> {}],
          detail |-> IF l.form = "mistyped" THEN "invalid type"
                     ELSE IF l.form = "blank" THEN "EOF while parsing"
                     ELSE "expected value"]

\* gemini.rs:165  serde_json::from_str::<serde_json::Value>(&line)
\* Ok for any well-formed JSON text.
ParseValue(l) ==
    IF l.form \in {"object", "mistyped"}
    THEN Some([form |-> l.form, type |-> l.type, role |-> l.role,
               content |-> l.content, session_id |-> l.session_id,
               extra |-> l.extra])
    ELSE None

\* Mutant: the kind is compared with a misspelt tag.
is_turn_completed_misspelt(event) == event.event_type = Some("turn_completed")

\* gemini.rs:69-71
is_turn_completed(event) == event.event_type = Some("turn.completed")

\* gemini.rs:181  content.contains(DEPRECATED_PROMPT_WARNING)
Contains(s, sub) ==
    \E i \in 1..(Len(s) + 1) :
        /\ i + Len(sub) - 1 <= Len(s)
        /\ SubSeq(s, i, i + Len(sub) - 1) = sub

\* A formatted text is a sequence of pieces: literal text, or the text of a
\* line.
Lit(s) == [lit |-> s, line |-> None]
LineText(l) == [lit |-> "", line |-> Some(l)]

\* gemini.rs:198  format!("[json decode error] {}: {}", e, line)
JsonDiag(e, l) == <<Lit("[json decode error] "), Lit(e), Lit(": "), LineText(l)>>

\* gemini.rs:212  format!("[io error] {}", e)
IoDiag(e) == <<Lit("[io error] "), Lit(e)>>

\* gemini.rs:238  error_messages.into_iter().collect::<Vec<_>>().join("\n")
RECURSIVE Join(_, _)
Join(v, sep) ==
    IF Len(v) = 0 THEN <<>>
    ELSE IF Len(v) = 1 THEN v[1]
    ELSE v[1] \o <<sep>> \o Join(Tail(v), sep)

\* gemini.rs:197-202  push_back, then pop_front when longer than 10
PushBounded(q, d) ==
    LET q2 == Append(q, d)
    IN  IF Len(q2) > BacklogCap THEN Tail(q2) ELSE q2

\* Mutant: a line is retained only when its event has a kind.
FoldAll_OnlyRecognised(all, l) ==
    IF IsSome(all) /\ IsSome(ParseValue(l)) /\ IsSome(l.type)
    THEN Some(Append(Unwrap(all), Unwrap(ParseValue(l))))
    ELSE all

\* gemini.rs:164-169
FoldAll(all, l) ==
    IF IsSome(all) /\ IsSome(ParseValue(l))
    THEN Some(Append(Unwrap(all), Unwrap(ParseValue(l))))
    ELSE all

\* Mutant: the first session id is kept.
FoldSession_KeepsFirst(sid, event) ==
    IF IsSome(event.session_id) /\ IsNone(sid) THEN event.session_id ELSE sid

\* gemini.rs:172-174
FoldSession(sid, event) ==
    IF IsSome(event.session_id) THEN event.session_id ELSE sid

\* Mutant: the content is assigned instead of pushed.
FoldAgent_Assigns(agent, event) ==
    IF /\ event.event_type = Some("message")
       /\ event.role = Some("assistant")
       /\ IsSome(event.content)
       /\ ~Contains(Unwrap(event.content), DEPRECATED_PROMPT_WARNING)
    THEN Unwrap(event.content)
    ELSE agent

\* Mutant: the deprecation warning is not filtered out.
FoldAgent_NoFilter(agent, event) ==
    IF /\ event.event_type = Some("message")
       /\ event.role = Some("assistant")
       /\ IsSome(event.content)
    THEN agent \o Unwrap(event.content)
    ELSE agent

\* gemini.rs:177-185
FoldAgent(agent, event) ==
    IF /\ event.event_type = Some("message")
       /\ event.role = Some("assistant")
       /\ IsSome(event.content)
       /\ ~Contains(Unwrap(event.content), DEPRECATED_PROMPT_WARNING)
    THEN agent \o Unwrap(event.content)
    ELSE agent

\* The three error texts of the classifier (gemini.rs:242, 245-248, 251-256);
\* the source's backquotes are written as apostrophes.
MsgTimeout == Lit("Process timeout. ")
MsgNoSession == Lit("Failed to get 'SESSION_ID' from the gemini session.\n\n")
MsgNoAgent == Lit("Failed to retrieve 'agent_messages' data from the Gemini session. This might be due to Gemini performing a tool call. You can continue using the 'SESSION_ID' to proceed with the conversation.\n\n")

\* Mutant: the missing session id is tested before the timeout.
Classify_SessionFirst(timed_out, sid, agent, errs, all, return_all) ==
    LET error_suffix == Join(errs, Lit("\n"))
        base == [success |-> TRUE, session_id |-> sid, agent_messages |-> None,
                 all_messages |-> None, error |-> None]
        r == IF IsNone(sid)
             THEN [base EXCEPT !.success = FALSE,
                               !.error = Some(<<MsgNoSession>> \o error_suffix)]
             ELSE IF timed_out
             THEN [base EXCEPT !.success = FALSE,
                               !.error = Some(<<MsgTimeout>> \o error_suffix)]
             ELSE IF agent = <<>>
             THEN [base EXCEPT !.success = FALSE,
                               !.error = Some(<<MsgNoAgent>> \o error_suffix)]
             ELSE [base EXCEPT !.agent_messages = Some(agent)]
    IN  IF return_all THEN [r EXCEPT !.all_messages = all] ELSE r

\* Mutant: the empty agent text is tested before the missing session id.
Classify_AgentFirst(timed_out, sid, agent, errs, all, return_all) ==
    LET error_suffix == Join(errs, Lit("\n"))
        base == [success |-> TRUE, session_id |-> sid, agent_messages |-> None,
                 all_messages |-> None, error |-> None]
        r == IF timed_out
             THEN [base EXCEPT !.success = FALSE,
                               !.error = Some(<<MsgTimeout>> \o error_suffix)]
             ELSE IF agent = <<>>
             THEN [base EXCEPT !.success = FALSE,
                               !.error = Some(<<MsgNoAgent>> \o error_suffix)]
             ELSE IF IsNone(sid)
             THEN [base EXCEPT !.success = FALSE,
                               !.error = Some(<<MsgNoSession>> \o error_suffix)]
             ELSE [base EXCEPT !.agent_messages = Some(agent)]
    IN  IF return_all THEN [r EXCEPT !.all_messages = all] ELSE r

\* Mutant: the failures are built without the session id.
Classify_DropsSession(timed_out, sid, agent, errs, all, return_all) ==
    LET error_suffix == Join(errs, Lit("\n"))
        base == [success |-> TRUE, session_id |-> sid, agent_messages |-> None,
                 all_messages |-> None, error |-> None]
        r == IF timed_out
             THEN [base EXCEPT !.success = FALSE, !.session_id = None,
                               !.error = Some(<<MsgTimeout>> \o error_suffix)]
             ELSE IF IsNone(sid)
             THEN [base EXCEPT !.success = FALSE,
                               !.error = Some(<<MsgNoSession>> \o error_suffix)]
             ELSE IF agent = <<>>
             THEN [base EXCEPT !.success = FALSE, !.session_id = None,
                               !.error = Some(<<MsgNoAgent>> \o error_suffix)]
             ELSE [base EXCEPT !.agent_messages = Some(agent)]
    IN  IF return_all THEN [r EXCEPT !.all_messages = all] ELSE r

\* Mutant: the backlog is reported only when it is not empty.
Classify_ErrorOnlyWithBacklog(timed_out, sid, agent, errs, all, return_all) ==
    LET error_suffix == Join(errs, Lit("\n"))
        base == [success |-> TRUE, session_id |-> sid, agent_messages |-> None,
                 all_messages |-> None, error |-> None]
        r == IF timed_out
             THEN [base EXCEPT !.success = FALSE,
                               !.error = Some(<<MsgTimeout>> \o error_suffix)]
             ELSE IF IsNone(sid)
             THEN [base EXCEPT !.success = FALSE,
                               !.error = Some(<<MsgNoSession>> \o error_suffix)]
             ELSE IF agent = <<>>
             THEN [base EXCEPT !.success = FALSE,
                               !.error = IF Len(errs) = 0 THEN None
                                         ELSE Some(<<MsgNoAgent>> \o error_suffix)]
             ELSE [base EXCEPT !.agent_messages = Some(agent)]
    IN  IF return_all THEN [r EXCEPT !.all_messages = all] ELSE r

\* Mutant: a timeout returns the agent text gathered so far.
Classify_PartialOnTimeout(timed_out, sid, agent, errs, all, return_all) ==
    LET error_suffix == Join(errs, Lit("\n"))
        base == [success |-> TRUE, session_id |-> sid, agent_messages |-> None,
                 all_messages |-> None, error |-> None]
        r == IF timed_out
             THEN [base EXCEPT !.success = FALSE,
                               !.agent_messages = IF agent = <<>> THEN None
                                                  ELSE Some(agent),
                               !.error = Some(<<MsgTimeout>> \o error_suffix)]
             ELSE IF IsNone(sid)
             THEN [base EXCEPT !.success = FALSE,
                               !.error = Some(<<MsgNoSession>> \o error_suffix)]
             ELSE IF agent = <<>>
             THEN [base EXCEPT !.success = FALSE,
                               !.error = Some(<<MsgNoAgent>> \o error_suffix)]
             ELSE [base EXCEPT !.agent_messages = Some(agent)]
    IN  IF return_all THEN [r EXCEPT !.all_messages = all] ELSE r

\* gemini.rs:228-265  the value execute_gemini returns after the shutdown
Classify(timed_out, sid, agent, errs, all, return_all) ==
    LET error_suffix == Join(errs, Lit("\n"))
        base == [success |-> TRUE, session_id |-> sid, agent_messages |-> None,
                 all_messages |-> None, error |-> None]
        r == IF timed_out
             THEN [base EXCEPT !.success = FALSE,
                               !.error = Some(<<MsgTimeout>> \o error_suffix)]
             ELSE IF IsNone(sid)
             THEN [base EXCEPT !.success = FALSE,
                               !.error = Some(<<MsgNoSession>> \o error_suffix)]
             ELSE IF agent = <<>>
             THEN [base EXCEPT !.success = FALSE,
                               !.error = Some(<<MsgNoAgent>> \o error_suffix)]
             ELSE [base EXCEPT !.agent_messages = Some(agent)]
    IN  IF return_all THEN [r EXCEPT !.all_messages = all] ELSE r

\* gemini.rs:42-54  str::replace, every occurrence of one character
RECURSIVE ReplaceChar(_, _, _)
ReplaceChar(str, ch, with) ==
    IF Len(str) = 0 THEN <<>>
    ELSE (IF Head(str) = ch THEN with ELSE <<Head(str)>>)
         \o ReplaceChar(Tail(str), ch, with)

\* gemini.rs:42-59  windows_escape, in the build for Windows and in the
\* other builds
windows_escape(prompt, windows) ==
    IF windows
    THEN LET s1 == ReplaceChar(prompt, "\\", <<"\\", "\\">>)
             s2 == ReplaceChar(s1, "\"", <<"\\", "\"">>)
             s3 == ReplaceChar(s2, "\n", <<"\\", "n">>)
             s4 == ReplaceChar(s3, "\r", <<"\\", "r">>)
             s5 == ReplaceChar(s4, "\t", <<"\\", "t">>)
             s6 == ReplaceChar(s5, "BACKSPACE", <<"\\", "b">>)
             s7 == ReplaceChar(s6, "\f", <<"\\", "f">>)
         IN  ReplaceChar(s7, "'", <<"\\", "'">>)
    ELSE prompt

\* An argument is a text: a sequence of characters.  A flag is written as
\* one piece.
Flag(name) == <<name>>

\* Mutant: the resume flag is pushed before the model flag.
BuildArgs_ResumeFirst(c) ==
    <<Flag("--prompt"), windows_escape(c.prompt, c.windows), Flag("-o"),
      Flag("stream-json")>>
    \o (IF c.sandbox THEN <<Flag("--sandbox")>> ELSE <<>>)
    \o (IF IsSome(c.session_id) /\ Unwrap(c.session_id) /= <<>>
        THEN <<Flag("--resume"), Unwrap(c.session_id)>> ELSE <<>>)
    \o (IF IsSome(c.model) /\ Unwrap(c.model) /= <<>>
        THEN <<Flag("--model"), Unwrap(c.model)>> ELSE <<>>)

\* gemini.rs:95-125  the argument vector
BuildArgs(c) ==
    <<Flag("--prompt"), windows_escape(c.prompt, c.windows), Flag("-o"),
      Flag("stream-json")>>
    \o (IF c.sandbox THEN <<Flag("--sandbox")>> ELSE <<>>)
    \o (IF IsSome(c.model) /\ Unwrap(c.model) /= <<>>
        THEN <<Flag("--model"), Unwrap(c.model)>> ELSE <<>>)
    \o (IF IsSome(c.session_id) /\ Unwrap(c.session_id) /= <<>>
        THEN <<Flag("--resume"), Unwrap(c.session_id)>> ELSE <<>>)

\* Mutant: the executable is looked up before the directory is checked.
Prelude_LookupFirst(dir, found, spawnable) ==
    IF ~found THEN Some([kind |-> "GeminiNotFound", arg |-> ""])
    ELSE IF ~dir.exists THEN Some([kind |-> "WorkspaceNotFound", arg |-> dir.path])
    ELSE IF ~spawnable THEN Some([kind |-> "ProcessSpawnError", arg |-> "os error"])
    ELSE None

\* gemini.rs:85-135  what stops the call before the read stage, if anything
Prelude(dir, found, spawnable) ==
    IF ~dir.exists THEN Some([kind |-> "WorkspaceNotFound", arg |-> dir.path])
    ELSE IF ~found THEN Some([kind |-> "GeminiNotFound", arg |-> ""])
    ELSE IF ~spawnable THEN Some([kind |-> "ProcessSpawnError", arg |-> "os error"])
    ELSE None

\* ------------------------------------------------------------- the state
VARIABLES
    call,                 \* arguments prompt, sandbox, session_id, model, and
                          \* the build (windows or not)
    args,                 \* Option: the argument vector the child was given
    cwd,                  \* argument: [path, exists]
    exe_found,            \* whether which("gemini") succeeds
    spawn_ok,             \* whether the operating system starts the child
    return_all_messages,  \* argument
    pc,                   \* where the call is suspended
    child,                \* "none", "running", "exited" (not yet reaped), "reaped"
    all_messages,         \* Option<Vec<Value>>
    agent_messages,       \* String
    session_id_result,    \* Option<String>
    error_messages,       \* VecDeque<String>
    read_result,          \* "pending", "ok", "elapsed"
    wait_result,          \* "pending", "ok", "elapsed"
    kill_result,          \* "none", "ok", "err"
    ret,                  \* what the call returned: [tag, value, err]
    processed             \* history: the events parsed so far, in order

vars == <<call, args, cwd, exe_found, spawn_ok, return_all_messages, pc, child,
          all_messages, agent_messages, session_id_result, error_messages,
          read_result, wait_result, kill_result, ret, processed>>

inputs == <<call, cwd, exe_found, spawn_ok, return_all_messages>>
acc == <<all_messages, agent_messages, session_id_result, error_messages>>

Dirs == {[path |-> "/ws", exists |-> TRUE], [path |-> "/gone", exists |-> FALSE]}

RetPending == [tag |-> "pending", value |-> None, err |-> None]
RetOk(v) == [tag |-> "Ok", value |-> Some(v), err |-> None]
RetErr(e) == [tag |-> "Err", value |-> None, err |-> Some(e)]

\* The prompts: every text of at most MaxPromptLen characters, some of
\* which windows_escape rewrites.
PromptChars == {"a", "n", "\\", "\"", "\n"}
Prompts == UNION {[1..k -> PromptChars] : k \in 0..MaxPromptLen}

OptTexts == {None, Some(<<>>), Some(<<"x">>)}

Calls ==
    [prompt : Prompts, windows : BOOLEAN, sandbox : BOOLEAN,
     model : OptTexts, session_id : OptTexts]

PlainCall ==
    [prompt |-> <<"a">>, windows |-> FALSE, sandbox |-> FALSE,
     model |-> None, session_id |-> None]

InitWith(calls) ==
    /\ call \in calls
    /\ args = None
    /\ cwd \in Dirs
    /\ exe_found \in BOOLEAN
    /\ spawn_ok \in BOOLEAN
    /\ return_all_messages \in BOOLEAN
    /\ pc = "start"
    /\ child = "none"
    /\ all_messages = None
    /\ agent_messages = <<>>
    /\ session_id_result = None
    /\ error_messages = <<>>
    /\ read_result = "pending"
    /\ wait_result = "pending"
    /\ kill_result = "none"
    /\ ret = RetPending
    /\ processed = <<>>

\* One call; the argument builder has its own specification, ArgsSpec.
Init == InitWith({PlainCall})

\* gemini.rs:85-148  validation, spawn, and the initial accumulators
Start ==
    /\ pc = "start"
    /\ LET stop == Prelude(cwd, exe_found, spawn_ok)
       IN  IF IsSome(stop)
           THEN /\ ret' = RetErr(Unwrap(stop))
                /\ pc' = "failed"
                /\ UNCHANGED <<child, all_messages, args>>
           ELSE /\ args' = Some(BuildArgs(call))
                /\ child' = "running"
                /\ all_messages' = IF return_all_messages THEN Some(<<>>) ELSE None
                /\ pc' = "read"
                /\ UNCHANGED ret
    /\ UNCHANGED <<inputs, agent_messages, session_id_result, error_messages,
                   read_result, wait_result, kill_result, processed>>

\* gemini.rs:154-205  one iteration of the loop on Ok(Some(line))
ReadLine(raw) ==
    /\ pc = "read"
    /\ LET line == Trim(raw)
           p == ParseEvent(line)
       IN  IF IsEmptyLine(line)
           THEN UNCHANGED <<acc, processed, pc>>
           ELSE IF p.ok
           THEN /\ Len(processed) < MaxEvents
                /\ all_messages' = FoldAll(all_messages, line)
                /\ session_id_result' = FoldSession(session_id_result, p.event)
                /\ agent_messages' = FoldAgent(agent_messages, p.event)
                /\ processed' = Append(processed, p.event)
                /\ pc' = IF is_turn_completed(p.event) THEN "grace" ELSE "read"
                /\ UNCHANGED error_messages
           ELSE /\ line.form = "mistyped" => Len(error_messages) < MaxMixed
                /\ error_messages' = PushBounded(error_messages, JsonDiag(p.detail, line))
                /\ UNCHANGED <<all_messages, session_id_result, agent_messages,
                               processed, pc>>
    /\ UNCHANGED <<inputs, args, child, read_result, wait_result, kill_result, ret>>

\* gemini.rs:206-209  Ok(None)
ReadEOF ==
    /\ pc = "read"
    /\ read_result' = "ok"
    /\ pc' = "wait1"
    /\ UNCHANGED <<inputs, args, child, acc, wait_result, kill_result, ret, processed>>

\* Mutant: the read error is propagated with `?`.
ReadIOError_Escalates ==
    /\ pc = "read"
    /\ ret' = RetErr([kind |-> "ProcessSpawnError", arg |-> "stream did not contain valid UTF-8"])
    /\ pc' = "failed"
    /\ UNCHANGED <<inputs, args, child, acc, read_result, wait_result, kill_result,
                   processed>>

\* Mutant: the read error is reported like an elapsed deadline.
ReadIOError_CountsAsTimeout ==
    /\ pc = "read"
    /\ error_messages' = Append(error_messages, IoDiag("stream did not contain valid UTF-8"))
    /\ read_result' = "elapsed"
    /\ pc' = "wait1"
    /\ UNCHANGED <<inputs, args, child, all_messages, agent_messages, session_id_result,
                   wait_result, kill_result, ret, processed>>

\* gemini.rs:210-214  Err(e)
ReadIOError ==
    /\ pc = "read"
    /\ error_messages' = Append(error_messages, IoDiag("stream did not contain valid UTF-8"))
    /\ read_result' = "ok"
    /\ pc' = "wait1"
    /\ UNCHANGED <<inputs, args, child, all_messages, agent_messages, session_id_result,
                   wait_result, kill_result, ret, processed>>

\* gemini.rs:189-193  the sleep after turn.completed is over
GraceDone ==
    /\ pc = "grace"
    /\ read_result' = "ok"
    /\ pc' = "wait1"
    /\ UNCHANGED <<inputs, args, child, acc, wait_result, kill_result, ret, processed>>

\* Mutant: the supervisor kills the child when the deadline fires.
Deadline_Kills ==
    /\ pc \in {"read", "grace"}
    /\ read_result' = "elapsed"
    /\ child' = "reaped"
    /\ kill_result' = "ok"
    /\ pc' = "wait1"
    /\ UNCHANGED <<inputs, args, acc, wait_result, ret, processed>>

\* Mutant: the accumulators live in the dropped future and are lost with it.
Deadline_DropsPartial ==
    /\ pc \in {"read", "grace"}
    /\ read_result' = "elapsed"
    /\ pc' = "wait1"
    /\ all_messages' = IF return_all_messages THEN Some(<<>>) ELSE None
    /\ agent_messages' = <<>>
    /\ session_id_result' = None
    /\ error_messages' = <<>>
    /\ UNCHANGED <<inputs, args, child, wait_result, kill_result, ret, processed>>

\* Mutant: the sleep after turn.completed is outside the deadline.
Deadline_OnlyWhileReading ==
    /\ pc = "read"
    /\ read_result' = "elapsed"
    /\ pc' = "wait1"
    /\ UNCHANGED <<inputs, args, child, acc, wait_result, kill_result, ret, processed>>

\* gemini.rs:151, 218  the deadline fires while the block is suspended
Deadline ==
    /\ pc \in {"read", "grace"}
    /\ read_result' = "elapsed"
    /\ pc' = "wait1"
    /\ UNCHANGED <<inputs, args, child, acc, wait_result, kill_result, ret, processed>>

\* The environment: the child exits by itself.
ChildExit ==
    /\ child = "running"
    /\ pc \in {"read", "grace", "wait1", "kill", "wait2"}
    /\ child' = "exited"
    /\ UNCHANGED <<inputs, args, pc, acc, read_result, wait_result, kill_result, ret,
                   processed>>

\* gemini.rs:228-265
Return ==
    ret' = RetOk(Classify(read_result = "elapsed", session_id_result,
                          agent_messages, error_messages, all_messages,
                          return_all_messages))

\* gemini.rs:221-222  child.wait() completes within WAIT_TIMEOUT_SECS
WaitExited ==
    /\ pc = "wait1"
    /\ child = "exited"
    /\ child' = "reaped"
    /\ wait_result' = "ok"
    /\ Return
    /\ pc' = "done"
    /\ UNCHANGED <<inputs, args, acc, read_result, kill_result, processed>>

\* gemini.rs:221-223  the grace window elapses first
WaitTimeout ==
    /\ pc = "wait1"
    /\ child = "running"
    /\ wait_result' = "elapsed"
    /\ pc' = "kill"
    /\ UNCHANGED <<inputs, args, child, acc, read_result, kill_result, ret, processed>>

\* gemini.rs:224  child.kill().await is Ok: the signal was sent and the
\* child waited for
KillOk ==
    /\ pc = "kill"
    /\ child' = "reaped"
    /\ kill_result' = "ok"
    /\ pc' = "wait2"
    /\ UNCHANGED <<inputs, args, acc, read_result, wait_result, ret, processed>>

\* gemini.rs:224  child.kill().await is Err, which `let _` drops
KillFail ==
    /\ pc = "kill"
    /\ kill_result' = "err"
    /\ pc' = "wait2"
    /\ UNCHANGED <<inputs, args, child, acc, read_result, wait_result, ret, processed>>

\* Mutant: the second wait gives up on a child that is still running.
Wait2Return_GivesUp ==
    /\ pc = "wait2"
    /\ child' = IF child = "exited" THEN "reaped" ELSE child
    /\ Return
    /\ pc' = "done"
    /\ UNCHANGED <<inputs, args, acc, read_result, wait_result, kill_result, processed>>

\* gemini.rs:225  child.wait().await completes: the child has exited
Wait2Return ==
    /\ pc = "wait2"
    /\ child \in {"exited", "reaped"}
    /\ child' = "reaped"
    /\ Return
    /\ pc' = "done"
    /\ UNCHANGED <<inputs, args, acc, read_result, wait_result, kill_result, processed>>

Next ==
    \/ Start
    \/ \E raw \in Lines : ReadLine(raw)
    \/ ReadEOF
    \/ ReadIOError
    \/ GraceDone
    \/ Deadline
    \/ ChildExit
    \/ WaitExited
    \/ WaitTimeout
    \/ KillOk
    \/ KillFail
    \/ Wait2Return

Spec == Init /\ [][Next]_vars

\* The runtime resumes a task whose timer has fired or whose future is
\* ready; nothing makes the child exit.
FairSpec ==
    /\ Spec
    /\ WF_vars(Start)
    /\ WF_vars(Deadline)
    /\ WF_vars(GraceDone)
    /\ WF_vars(WaitExited)
    /\ WF_vars(WaitTimeout)
    /\ WF_vars(KillOk \/ KillFail)
    /\ WF_vars(Wait2Return)

\* The argument builder over every call: the call up to the spawn.
ArgsInit == InitWith(Calls)
ArgsSpec == ArgsInit /\ [][Start]_vars

\* ------------------------------------------------------------ the claims
Returned == ret.tag = "Ok"
Outcome == Unwrap(ret.value)
TimedOut == read_result = "elapsed"

IsPrefix(a, b) == Len(a) <= Len(b) /\ SubSeq(b, 1, Len(a)) = a

RECURSIVE Concat(_)
Concat(v) == IF Len(v) = 0 THEN <<>> ELSE v[1] \o Concat(Tail(v))

NotSeparator(piece) == piece /= Lit("\n")

\* The text begins with `head` and goes on with the backlog entries in
\* order, one newline between two entries.
IsHeadThenBacklog(text, head, backlog) ==
    /\ Len(text) >= 1
    /\ text[1] = head
    /\ LET rest == Tail(text)
       IN  /\ SelectSeq(rest, NotSeparator) = Concat(backlog)
           /\ Len(rest) = Len(Concat(backlog))
                          + (IF Len(backlog) = 0 THEN 0 ELSE Len(backlog) - 1)

SessionCarried == \E i \in DOMAIN processed : IsSome(processed[i].session_id)
TurnCompletedSeen ==
    \E i \in DOMAIN processed : processed[i].event_type = Some("turn.completed")

\* C1: however the read stage ends (turn.completed and the grace delay,
\* end of stream, I/O fault, deadline) the next thing that runs is the
\* shutdown sequence, and whenever execute_gemini has returned an Outcome
\* the first wait has been made and the child has exited and been reaped.
C1_ShutdownThenReaped ==
    /\ [](Returned => child = "reaped" /\ wait_result /= "pending")
    /\ [][(pc \in {"read", "grace"} /\ pc' \notin {"read", "grace"})
            => pc' = "wait1" /\ read_result' /= "pending"]_vars

\* The deadline ended the read stage, the kill failed, and the call still
\* returned only after the child was reaped.
C1_Witness ==
    /\ Returned
    /\ TimedOut
    /\ kill_result = "err"
    /\ child = "reaped"

\* C2: once the child is spawned, execute_gemini eventually returns.
C2_EventuallyReturns == (pc = "read") ~> (pc = "done")

\* C3: when the deadline ended the read stage, the Outcome is a failure
\* whose error text is "Process timeout. " followed by the joined backlog,
\* whatever session id and agent text were accumulated.
C3_TimeoutOutcome ==
    (Returned /\ TimedOut) =>
        /\ Outcome.success = FALSE
        /\ IsSome(Outcome.error)
        /\ IsHeadThenBacklog(Unwrap(Outcome.error), MsgTimeout, error_messages)

\* A timeout with a session id, agent text and two diagnostics accumulated.
C3_Witness ==
    /\ Returned
    /\ TimedOut
    /\ IsSome(session_id_result)
    /\ agent_messages /= <<>>
    /\ Len(error_messages) >= 2
    /\ Outcome.success = FALSE

\* The session id of the last processed event that carried one.
RECURSIVE LastCarried(_)
LastCarried(evs) ==
    IF Len(evs) = 0 THEN None
    ELSE IF IsSome(evs[Len(evs)].session_id) THEN evs[Len(evs)].session_id
    ELSE LastCarried(SubSeq(evs, 1, Len(evs) - 1))

\* C4: the Outcome is a success exactly when the read stage did not time
\* out, some processed event carried a session id and the accumulated agent
\* text is not empty; a success carries the agent text and the session id
\* and no error.  Without a timeout and without a session id the Outcome is
\* the missing-session-id failure, also when the agent text is empty.
C4_SuccessExactly ==
    Returned =>
        /\ Outcome.success <=>
             (~TimedOut /\ SessionCarried /\ agent_messages /= <<>>)
        /\ Outcome.success =>
             /\ Outcome.agent_messages = Some(agent_messages)
             /\ IsSome(Outcome.session_id)
             /\ Outcome.session_id = LastCarried(processed)
             /\ Outcome.error = None
        /\ (~TimedOut /\ ~SessionCarried) =>
             /\ Outcome.success = FALSE
             /\ IsSome(Outcome.error)
             /\ IsHeadThenBacklog(Unwrap(Outcome.error), MsgNoSession, error_messages)

\* The scenario of the specification: the assistant message "Hi", then
\* turn.completed carrying the session id.
C4_Witness ==
    /\ Returned
    /\ processed = <<ParseEvent(LnHello).event, ParseEvent(LnDone).event>>
    /\ Outcome.success = TRUE
    /\ Outcome.session_id = Some("abc123")
    /\ Outcome.agent_messages = Some(<<"H", "i">>)

\* C5: no timeout, a session id captured, no agent text: the Outcome is the
\* no-agent-message failure and still carries the session id.
C5_NoAgentMessage ==
    (Returned /\ ~TimedOut /\ SessionCarried /\ agent_messages = <<>>) =>
        /\ Outcome.success = FALSE
        /\ IsSome(Outcome.error)
        /\ IsHeadThenBacklog(Unwrap(Outcome.error), MsgNoAgent, error_messages)
        /\ IsSome(Outcome.session_id)
        /\ Outcome.session_id = LastCarried(processed)

\* A tool-call event carried the session id and the stream ended.
C5_Witness ==
    /\ Returned
    /\ ~TimedOut
    /\ processed = <<ParseEvent(LnTool).event>>
    /\ Outcome.success = FALSE
    /\ Outcome.session_id = Some("s2")

\* C6: in every returned Outcome, error is present iff success is false.
C6_ErrorIffFailure ==
    Returned => (IsSome(Outcome.error) <=> (Outcome.success = FALSE))

\* Both sides occur: a returned failure with its error.
C6_Witness ==
    /\ Returned
    /\ Outcome.success = FALSE
    /\ IsSome(Outcome.error)
    /\ ~TimedOut
    /\ IsSome(session_id_result)

\* C7: the backlog never holds more than 10 entries.
C7_BacklogAtMostTen == Len(error_messages) <= BacklogCap

\* C8: once a turn.completed event has been processed, nothing more is read
\* or folded: the accumulated state stays as it is and the loop is not
\* re-entered.
C8_EarlyStop ==
    [][TurnCompletedSeen =>
         /\ UNCHANGED <<acc, processed>>
         /\ pc' /= "read"]_vars

\* turn.completed was processed as the first event and the call went on to
\* the shutdown with the child still running (more output could follow).
C8_Witness ==
    /\ TurnCompletedSeen
    /\ Len(processed) = 1
    /\ pc = "wait1"
    /\ child = "running"

AllSeq(all) == IF IsSome(all) THEN Unwrap(all) ELSE <<>>

\* A step that put a parse diagnostic into the backlog.
MalformedStep ==
    /\ pc = "read"
    /\ error_messages' /= error_messages
    /\ error_messages'[Len(error_messages')][1] = Lit("[json decode error] ")

\* C9: a malformed line changes the backlog only (session id, agent text,
\* all-events buffer untouched) and the loop goes on; over any step the
\* agent text and the all-events buffer only grow at the end.
C9_MalformedFrame ==
    [][/\ MalformedStep =>
            /\ UNCHANGED <<session_id_result, agent_messages, all_messages, processed>>
            /\ pc' = "read"
       /\ IsPrefix(agent_messages, agent_messages')
       /\ IsPrefix(AllSeq(all_messages), AllSeq(all_messages'))
       /\ IsSome(all_messages) => IsSome(all_messages')]_vars

\* Valid state was accumulated and malformed lines were read, and the loop
\* is still reading.
C9_Witness ==
    /\ pc = "read"
    /\ agent_messages /= <<>>
    /\ IsSome(session_id_result)
    /\ Len(AllSeq(all_messages)) >= 2
    /\ Len(error_messages) >= 2

\* C10: a working directory that does not exist makes the call fail with
\* WorkspaceNotFound naming the path, whatever the executable lookup would
\* give, and no child is ever spawned.
C10_WorkspaceNotFound ==
    ~cwd.exists =>
        /\ child = "none"
        /\ pc \in {"start", "failed"}
        /\ pc = "failed" =>
             ret = RetErr([kind |-> "WorkspaceNotFound", arg |-> cwd.path])

\* The directory is missing and so is the executable.
C10_Witness ==
    /\ pc = "failed"
    /\ ~cwd.exists
    /\ ~exe_found
    /\ ret.tag = "Err"
\* The last backlog entry is the diagnostic of an I/O fault.
IoFaulted ==
    /\ Len(error_messages) >= 1
    /\ error_messages[Len(error_messages)][1] = Lit("[io error] ")

\* An Outcome is well formed: a success carries the session id and the agent
\* text and no error; a failure carries one of the three explanations
\* followed by the backlog, and no agent text.
WellFormed(o) ==
    IF o.success
    THEN /\ IsSome(o.session_id)
         /\ IsSome(o.agent_messages)
         /\ o.error = None
    ELSE /\ IsSome(o.error)
         /\ \E head \in {MsgTimeout, MsgNoSession, MsgNoAgent} :
                IsHeadThenBacklog(Unwrap(o.error), head, error_messages)
         /\ o.agent_messages = None

\* C11: the call fails hard only with WorkspaceNotFound, GeminiNotFound or
\* ProcessSpawnError, and only before a child exists and before anything is
\* read; once the child is spawned the call never fails hard, and what it
\* returns is a well-formed Outcome, a failure with its explanation after a
\* timeout, without a session id or without agent text.
C11_HardFailuresOnlyBeforeSpawn ==
    /\ ret.tag = "Err" =>
         /\ Unwrap(ret.err).kind \in
              {"WorkspaceNotFound", "GeminiNotFound", "ProcessSpawnError"}
         /\ pc = "failed"
         /\ child = "none"
         /\ read_result = "pending"
         /\ processed = <<>> /\ error_messages = <<>>
    /\ child /= "none" => ret.tag /= "Err" /\ pc /= "failed"
    /\ pc = "done" => Returned
    /\ Returned =>
         /\ WellFormed(Outcome)
         /\ (TimedOut \/ ~SessionCarried \/ agent_messages = <<>>)
               => Outcome.success = FALSE

\* After malformed lines and an I/O fault, with no session id, the call
\* returned a failure Outcome.
C11_Witness ==
    /\ Returned
    /\ IoFaulted
    /\ Len(error_messages) >= 3
    /\ ~SessionCarried
    /\ Outcome.success = FALSE
    /\ IsSome(Outcome.error)

\* The prompt with a backslash put before each character that the command
\* line of Windows needs escaped (control characters by their letter).
EscapedChar(ch) ==
    IF ch = "\\" THEN <<"\\", "\\">>
    ELSE IF ch = "\"" THEN <<"\\", "\"">>
    ELSE IF ch = "\n" THEN <<"\\", "n">>
    ELSE IF ch = "\r" THEN <<"\\", "r">>
    ELSE IF ch = "\t" THEN <<"\\", "t">>
    ELSE IF ch = "BACKSPACE" THEN <<"\\", "b">>
    ELSE IF ch = "\f" THEN <<"\\", "f">>
    ELSE IF ch = "'" THEN <<"\\", "'">>
    ELSE <<ch>>

RECURSIVE EscapedText(_)
EscapedText(str) ==
    IF Len(str) = 0 THEN <<>>
    ELSE EscapedChar(Head(str)) \o EscapedText(Tail(str))

\* The vector of the argument contract with `text` as the prompt argument.
ContractArgs(text) ==
    <<Flag("--prompt"), text, Flag("-o"), Flag("stream-json")>>
    \o (IF call.sandbox THEN <<Flag("--sandbox")>> ELSE <<>>)
    \o (IF call.model \notin {None, Some(<<>>)}
        THEN <<Flag("--model"), Unwrap(call.model)>> ELSE <<>>)
    \o (IF call.session_id \notin {None, Some(<<>>)}
        THEN <<Flag("--resume"), Unwrap(call.session_id)>> ELSE <<>>)

\* C12 as stated: the vector is --prompt, the prompt, -o, stream-json, then
\* --sandbox iff set, --model and the model iff non-empty, --resume and the
\* id iff non-empty, and nothing else.
C12_ArgsVerbatim ==
    IsSome(args) => Unwrap(args) = ContractArgs(call.prompt)

\* C12 amended: the same vector, whose prompt argument is the prompt itself
\* in the builds that are not for Windows and the escaped prompt in the
\* build for Windows.
C12_ArgsWithEscapedPrompt ==
    IsSome(args) =>
        Unwrap(args) = ContractArgs(IF call.windows THEN EscapedText(call.prompt)
                                    ELSE call.prompt)

\* A Windows build, a prompt that needs escaping, the sandbox, a model and
\* an empty resume id: seven arguments.
C12_Witness ==
    /\ IsSome(args)
    /\ call.windows
    /\ call.prompt = <<"\\", "n">>
    /\ call.sandbox
    /\ call.model = Some(<<"x">>)
    /\ call.session_id = Some(<<>>)
    /\ Len(Unwrap(args)) = 7
    /\ Unwrap(args)[2] = <<"\\", "\\", "n">>
\* C13: the child is killed only by the shutdown sequence and only after
\* the first wait ran out with the child still running; a child that exits
\* within the grace window is reaped and not killed; nothing in the read
\* stage, the deadline included, kills or reaps the child.
C13_KillOnlyAfterGraceWindow ==
    /\ [](kill_result /= "none" => wait_result = "elapsed")
    /\ []((pc = "done" /\ wait_result = "ok")
            => (kill_result = "none" /\ child = "reaped"))
    /\ [][kill_result' /= kill_result => pc = "kill"]_vars
    /\ [][(wait_result = "pending" /\ wait_result' = "elapsed")
            => child = "running"]_vars
    /\ [][(pc \in {"read", "grace"})
            => (kill_result' = "none" /\ child' /= "reaped")]_vars

\* The deadline ended the read stage, the child then exited within the
\* grace window, and the call returned without a kill.
C13_Witness ==
    /\ pc = "done"
    /\ TimedOut
    /\ wait_result = "ok"
    /\ kill_result = "none"
    /\ child = "reaped"

\* C14: the captured session id is always that of the last processed event
\* that carried one, and once set it is never unset.
C14_SessionLastWins ==
    /\ [](session_id_result = LastCarried(processed))
    /\ [][IsSome(session_id_result) => IsSome(session_id_result')]_vars

\* Two events carried different ids, the second being turn.completed.
C14_Witness ==
    /\ processed = <<ParseEvent(LnInit).event, ParseEvent(LnDone).event>>
    /\ session_id_result = Some("abc123")

HasWarning(text) ==
    \E i \in 1..Len(text) : \E j \in i..Len(text) :
        SubSeq(text, i, j) = DEPRECATED_PROMPT_WARNING

Contributes(ev) ==
    /\ ev.event_type = Some("message")
    /\ ev.role = Some("assistant")
    /\ ev.content /= None
    /\ ~HasWarning(Unwrap(ev.content))

\* The contents of the contributing events, in order, one after the other.
RECURSIVE ExpectedAgent(_)
ExpectedAgent(evs) ==
    IF Len(evs) = 0 THEN <<>>
    ELSE (IF Contributes(Head(evs)) THEN Unwrap(Head(evs).content) ELSE <<>>)
         \o ExpectedAgent(Tail(evs))

\* C15: the accumulated agent text is the in-order concatenation of the
\* content of the processed events of kind "message" and role "assistant"
\* whose content is present and has no deprecation warning in it; no other
\* event adds anything.
C15_AgentTextIsConcatenation ==
    agent_messages = ExpectedAgent(processed)

\* The read stage ended after a warning line and an assistant message.
C15_Witness ==
    /\ pc = "wait1"
    /\ processed = <<ParseEvent(LnWarn).event, ParseEvent(LnHello).event>>
    /\ agent_messages = <<"H", "i">>

\* The untyped value of the line an event was parsed from.
ValueOfEvent(ev) ==
    [form |-> "object", type |-> ev.event_type, role |-> ev.role,
     content |-> ev.content, session_id |-> ev.session_id, extra |-> ev.extra]

\* C16: the Outcome has the all-events list iff the caller asked for it,
\* and the list is then the processed events' lines in order: every parsed
\* line, turn.completed and events without recognised fields included, and
\* no malformed line.
C16_AllEvents ==
    Returned =>
        /\ IsSome(Outcome.all_messages) <=> return_all_messages
        /\ return_all_messages =>
             Unwrap(Outcome.all_messages)
               = [i \in 1..Len(processed) |-> ValueOfEvent(processed[i])]

\* All events were asked for; an event without recognised fields, a mistyped
\* object and turn.completed were read.
C16_Witness ==
    /\ Returned
    /\ return_all_messages
    /\ processed = <<ParseEvent(LnUnknown).event, ParseEvent(LnDone).event>>
    /\ Len(Unwrap(Outcome.all_messages)) = 2
    /\ Len(error_messages) >= 1
    /\ error_messages[1][2] = Lit("invalid type")
\* A step that put the diagnostic of an I/O fault into the backlog.
IoFaultStep ==
    /\ pc = "read"
    /\ error_messages' /= error_messages
    /\ error_messages'[Len(error_messages')][1] = Lit("[io error] ")

\* C17: an I/O fault appends one diagnostic and ends the loop, touching
\* nothing else; it is neither a timeout nor a hard failure; and the Outcome
\* after it is decided by what was accumulated: with a session id and agent
\* text it is a success.
C17_IoFaultNotEscalated ==
    /\ [][IoFaultStep =>
            /\ Len(error_messages') = Len(error_messages) + 1
            /\ IsPrefix(error_messages, error_messages')
            /\ pc' = "wait1"
            /\ read_result' = "ok"
            /\ UNCHANGED <<session_id_result, agent_messages, all_messages,
                           processed, ret, child>>]_vars
    /\ [](IoFaulted =>
            /\ read_result = "ok"
            /\ ret.tag /= "Err"
            /\ pc \in {"wait1", "kill", "wait2", "done"})
    /\ []((Returned /\ IoFaulted /\ SessionCarried /\ agent_messages /= <<>>) =>
            /\ Outcome.success = TRUE
            /\ Outcome.agent_messages = Some(agent_messages)
            /\ Outcome.session_id = session_id_result
            /\ Outcome.error = None)

\* A session id and agent text were captured, then the read failed, and the
\* call returned a success.
C17_Witness ==
    /\ Returned
    /\ IoFaulted
    /\ processed = <<ParseEvent(LnTool).event, ParseEvent(LnHello).event>>
    /\ Outcome.success = TRUE
    /\ Outcome.session_id = Some("s2")

\* C18: the deadline takes nothing away from what was accumulated: the
\* step on which it elapses and every later step leave the accumulators as
\* they are, and the Outcome carries the last session id captured and, in
\* its error text, the backlog.
C18_PartialStateSurvivesDeadline ==
    /\ [][(read_result = "pending" /\ read_result' = "elapsed")
            => UNCHANGED <<acc, processed>>]_vars
    /\ [][read_result /= "pending" => UNCHANGED <<acc, processed>>]_vars
    /\ []((Returned /\ TimedOut) =>
            /\ Outcome.session_id = LastCarried(processed)
            /\ Outcome.session_id = session_id_result
            /\ IsSome(Outcome.error)
            /\ IsHeadThenBacklog(Unwrap(Outcome.error), MsgTimeout, error_messages))

\* Two session ids and two diagnostics were accumulated before the deadline.
C18_Witness ==
    /\ Returned
    /\ TimedOut
    /\ processed = <<ParseEvent(LnInit).event, ParseEvent(LnTool).event>>
    /\ Outcome.session_id = Some("s2")
    /\ Len(error_messages) = 2
    /\ Len(Unwrap(Outcome.error)) = 10

\* C19: a returned Outcome has agent_messages iff it is a success; after a
\* timeout the agent text gathered so far is not returned.
C19_AgentMessagesIffSuccess ==
    Returned =>
        /\ IsSome(Outcome.agent_messages) <=> (Outcome.success = TRUE)
        /\ TimedOut => Outcome.agent_messages = None

\* Agent text was gathered before the deadline and is not in the Outcome.
C19_Witness ==
    /\ Returned
    /\ TimedOut
    /\ agent_messages = <<"H", "i">>
    /\ Outcome.agent_messages = None
    /\ Outcome.success = FALSE

\* C20: the deadline can elapse during the delay that follows
\* turn.completed, and when it has, the Outcome is the timeout failure, also
\* with a session id and agent text captured.
C20_DeadlineCoversGraceDelay ==
    /\ pc = "grace" => ENABLED Deadline
    /\ (Returned /\ TurnCompletedSeen /\ TimedOut) =>
         /\ Outcome.success = FALSE
         /\ Outcome.agent_messages = None
         /\ IsSome(Outcome.error)
         /\ Unwrap(Outcome.error)[1] = MsgTimeout

\* The scenario that would be a success, cut by the deadline during the
\* delay.
C20_Witness ==
    /\ Returned
    /\ TimedOut
    /\ processed = <<ParseEvent(LnHello).event, ParseEvent(LnDone).event>>
    /\ session_id_result = Some("abc123")
    /\ agent_messages = <<"H", "i">>
    /\ Outcome.success = FALSE
====
